---- MODULE Spec2Model ----
(***************************************************************************)
(* Model of Application.py: the Streamlit interview bot.                   *)
(*                                                                         *)
(* Streamlit re-executes main() from the top on every interaction; the     *)
(* only state that survives a run is st.session_state, the audio files     *)
(* written by save_audio and the results file written by                   *)
(* save_results_csv.  Each action below is one complete execution of       *)
(* main() for one trigger (a button click, an edited text field, a         *)
(* finished recording, or a rerun with no trigger at all).                 *)
(*                                                                         *)
(* Texts are sequences of one-character strings, so that str.strip,        *)
(* str.replace and str.splitlines are computed rather than assumed.        *)
(***************************************************************************)
EXTENDS Integers, Sequences, FiniteSets, TLC

VARIABLES
    session_state,  \* st.session_state: the nine keys initialised in main()
    audios,         \* the files of directory "audios": path -> recorded bytes
    results_csv,    \* interview_results.csv: whether it exists, and its rows
    rerun,          \* TRUE while an st.rerun() raised by the last run is pending
    outcome,        \* how the last run of main() ended: "ok", "warning" (st.warning),
                    \* or the name of the call that raised
    session_saves,  \* save_results_csv calls since "Finish Interview" was applied
    persisted_questions, \* sum of len(questions) over the sessions persisted so far
    starts          \* number of times the "Start Interview" branch stored questions

vars == <<session_state, audios, results_csv, rerun, outcome, session_saves,
          persisted_questions, starts>>

(***************************************************************************)
(* Bounds and input alphabets.                                             *)
(***************************************************************************)
MaxRows == 3        \* the results file holds at most this many rows
MaxStarts == 2      \* at most this many interviews are started

SP == " "
NL == "\n"

\* values typed into "Enter your name"
NameInputs == { <<SP>>, <<SP, "A", SP, "B", SP>> }
\* values typed into "Job Title" / "Job Description"
TitleInputs == { <<SP>>, <<"R">> }
DescriptionInputs == { <<"D">> }
\* texts the question LLM may return
GenOutputs == { <<SP, NL>>,
                <<"1", ".", "a">>,
                <<"1", ".", "a", NL, NL, SP, "2", ".", "b">>,
                <<"q", NL, "q", SP, NL, "r">> }
\* recordings the audio widget may deliver (never empty: see RecordAnswer)
Recordings == { "rec1", "rec2" }
GreetingOutputs == { "Hello" }
EvalOutputs == { "Final Score: 8/10" }

\* the outcome of a port call that raised
Raised == "raised"

(***************************************************************************)
(* String helpers (Python str methods).                                    *)
(***************************************************************************)
RECURSIVE LStrip(_)
LStrip(s) ==
    IF s # <<>> /\ Head(s) \in {SP, NL} THEN LStrip(Tail(s)) ELSE s

RECURSIVE RStrip(_)
RStrip(s) ==
    IF s # <<>> /\ s[Len(s)] \in {SP, NL}
    THEN RStrip(SubSeq(s, 1, Len(s) - 1))
    ELSE s

Strip(s) == RStrip(LStrip(s))

Replace(s, old, new) == [i \in DOMAIN s |-> IF s[i] = old THEN new ELSE s[i]]

\* str.splitlines: lines end at NL; a trailing NL opens no further line.
RECURSIVE SplitLines(_)
SplitLines(s) ==
    IF s = <<>> THEN <<>>
    ELSE IF \E i \in DOMAIN s : s[i] = NL
         THEN LET i == CHOOSE k \in DOMAIN s :
                          s[k] = NL /\ \A j \in 1..(k - 1) : s[j] # NL
              IN  <<SubSeq(s, 1, i - 1)>> \o SplitLines(SubSeq(s, i + 1, Len(s)))
         ELSE <<s>>

RECURSIVE SelectNonBlank(_)
SelectNonBlank(ls) ==
    IF ls = <<>> THEN <<>>
    ELSE IF Strip(Head(ls)) # <<>>
         THEN <<Strip(Head(ls))>> \o SelectNonBlank(Tail(ls))
         ELSE SelectNonBlank(Tail(ls))

\* [q.strip() for q in output.splitlines() if q.strip()]
ParseQuestions(output) == SelectNonBlank(SplitLines(output))

(***************************************************************************)
(* The responses dict: insertion-ordered, keyed by question text.          *)
(***************************************************************************)
Keys(responses) == { responses[i].q : i \in DOMAIN responses }

Lookup(responses, k) ==
    responses[CHOOSE i \in DOMAIN responses : responses[i].q = k]

\* responses[k] = {"audio": audio, "text": text}
DictSet(responses, k, audio, text) ==
    IF k \in Keys(responses)
    THEN [i \in DOMAIN responses |->
            IF responses[i].q = k
            THEN [q |-> k, audio |-> audio, text |-> text]
            ELSE responses[i]]
    ELSE Append(responses, [q |-> k, audio |-> audio, text |-> text])

(***************************************************************************)
(* Helpers of Application.py.                                              *)
(***************************************************************************)
\* f"{safe_name}_Q{idx+1}.wav" joined to directory "audios"
AudioPath(safe_name, idx) == [dir |-> "audios", name |-> safe_name, n |-> idx + 1]

\* save_audio: (over)write the file at the path; the path is the result
save_audio(files, audio_bytes, path) ==
    [p \in (DOMAIN files) \cup {path} |-> IF p = path THEN audio_bytes ELSE files[p]]

\* the text the Whisper endpoint answers for a recording: a function of the
\* recorded bytes, with the blanks around it that strip() removes
WhisperText(audio_bytes) ==
    IF audio_bytes = "rec1" THEN <<SP, "y">> ELSE <<"n", SP>>

\* transcribe_audio_file: transcription.text.strip() of the file's content
transcribe_audio_file(files, path) == Strip(WhisperText(files[path]))

\* The rows of the results file.  The program only ever appends to the file
\* and never reads a row back, so a data row is kept by three of its six
\* cells (name, question, evaluation); the Role, Audio File and Transcribed
\* Answer cells are copies of session_state.role and of the response written.
HeaderRow ==
    [kind |-> "header",
     cells |-> <<"Candidate Name", "Question", "Evaluation Summary">>]

\* for q, data in responses.items(): writer.writerow([...])
RECURSIVE ResponseRows(_, _, _, _)
ResponseRows(candidate_name, role, responses, eval_result) ==
    IF responses = <<>> THEN <<>>
    ELSE <<[kind |-> "data",
            cells |-> <<candidate_name, Head(responses).q, eval_result>>]>>
         \o ResponseRows(candidate_name, role, Tail(responses), eval_result)

\* save_results_csv: append; the header first when the file does not exist
save_results_csv(file, candidate_name, role, responses, eval_result) ==
    [exists |-> TRUE,
     rows   |-> file.rows
                \o (IF ~file.exists THEN <<HeaderRow>> ELSE <<>>)
                \o ResponseRows(candidate_name, role, responses, eval_result)]

\* line 192: qa_pairs, one "Q{i+1}: {q}\nA: {text}" per item of responses in
\* the order of responses.items(); label is the number after "Q"
QaPairs(responses) ==
    [i \in DOMAIN responses |->
        [label |-> i, q |-> responses[i].q, a |-> responses[i].text]]

(***************************************************************************)
(* One run of main().  A run threads a record w through the blocks of      *)
(* main(): w.ss is st.session_state, w.audios and w.csv the files, w.ctl   *)
(* how control leaves the block ("continue" falls through to the next      *)
(* block, "rerun" is st.rerun(), "return" is return, "raise" an uncaught   *)
(* exception), w.error the call that raised, w.saved whether                   *)
(* save_results_csv was called and w.started whether questions were stored.  in holds the widget values and the        *)
(* outcomes of the external calls of this run.                             *)
(***************************************************************************)
Buttons == {"Submit Name", "Start Interview", "Previous Question",
            "Next Question", "Finish Interview"}
NoClick == "none"
NoAudio == "none"

\* InterviewShown without the test of interview_complete
InterviewShownWhenComplete(ss) == ss.questions # <<>>

\* line 162: the question, the recorder and the navigation are shown
InterviewShown(ss) == ss.questions # <<>> /\ ~ss.interview_complete

\* Shown with "Next Question" offered whether or not the current question
\* has an answer
ShownNextUnanswered(ss, button) ==
    LET idx      == ss.current_question
        reached  == /\ ss.candidate_name # <<>> /\ ss.greeting_done
                    /\ InterviewShown(ss)
        answered == reached /\ ss.questions[idx + 1] \in Keys(ss.responses)
    IN  CASE button = "Submit Name"       -> ss.candidate_name = <<>>
          [] button = "Start Interview"   -> ss.candidate_name # <<>> /\ ss.greeting_done
          [] button = "Previous Question" -> answered /\ idx > 0
          [] button = "Next Question"     -> reached /\ idx < Len(ss.questions) - 1
          [] button = "Finish Interview"  -> answered /\ idx = Len(ss.questions) - 1
          [] OTHER -> FALSE

\* Shown with "Finish Interview" offered at the last question whether or not
\* it has an answer
ShownUnanswered(ss, button) ==
    LET idx      == ss.current_question
        reached  == /\ ss.candidate_name # <<>> /\ ss.greeting_done
                    /\ InterviewShown(ss)
        answered == reached /\ ss.questions[idx + 1] \in Keys(ss.responses)
    IN  CASE button = "Submit Name"       -> ss.candidate_name = <<>>
          [] button = "Start Interview"   -> ss.candidate_name # <<>> /\ ss.greeting_done
          [] button = "Previous Question" -> answered /\ idx > 0
          [] button = "Next Question"     -> answered /\ idx < Len(ss.questions) - 1
          [] button = "Finish Interview"  -> reached /\ idx = Len(ss.questions) - 1
          [] OTHER -> FALSE

\* the conditions under which main() reaches (renders and reads) a button:
\* lines 129-131, 137-148, 162 and 178-186
Shown(ss, button) ==
    LET idx      == ss.current_question
        answered ==
            /\ ss.candidate_name # <<>> /\ ss.greeting_done
            /\ InterviewShown(ss)
            /\ ss.questions[idx + 1] \in Keys(ss.responses)
    IN  CASE button = "Submit Name"       -> ss.candidate_name = <<>>
          [] button = "Start Interview"   -> ss.candidate_name # <<>> /\ ss.greeting_done
          [] button = "Previous Question" -> answered /\ idx > 0
          [] button = "Next Question"     -> answered /\ idx < Len(ss.questions) - 1
          [] button = "Finish Interview"  -> answered /\ idx = Len(ss.questions) - 1
          [] OTHER -> FALSE

Clicked(w, in, button) == Shown(w.ss, button) /\ in.click = button

\* lines 129-134
NameBlock(w, in) ==
    IF w.ss.candidate_name = <<>>
    THEN IF Clicked(w, in, "Submit Name") /\ Strip(in.name) # <<>>
         THEN [w EXCEPT !.ss.candidate_name = Strip(in.name), !.ctl = "rerun"]
         ELSE [w EXCEPT !.ctl = "return"]
    ELSE w

\* lines 137-140
GreetingBlock(w, in) ==
    IF ~w.ss.greeting_done
    THEN IF in.greeting = Raised
         THEN [w EXCEPT !.ctl = "raise", !.error = "greeting_chain"]
         ELSE [w EXCEPT !.ss.greeting_text = in.greeting,
                        !.ss.greeting_done = TRUE,
                        !.ctl = "rerun"]
    ELSE w

\* StartInterview resetting the session before question_chain is called
StartInterviewClearsFirst(w, in) ==
    IF ~in.gen_ok
    THEN [w EXCEPT !.ss.current_question = 0,
                   !.ss.responses = <<>>,
                   !.ss.interview_complete = FALSE,
                   !.ctl = "raise", !.error = "question_chain"]
    ELSE [w EXCEPT !.ss.questions = ParseQuestions(in.generated),
                   !.ss.current_question = 0,
                   !.ss.responses = <<>>,
                   !.ss.interview_complete = FALSE,
                   !.started = 1,
                   !.ctl = "rerun"]

\* StartInterview without the reset of interview_complete
StartInterviewKeepsFlag(w, in) ==
    IF ~in.gen_ok
    THEN [w EXCEPT !.ctl = "raise", !.error = "question_chain"]
    ELSE [w EXCEPT !.ss.questions = ParseQuestions(in.generated),
                   !.ss.current_question = 0,
                   !.ss.responses = <<>>,
                   !.started = 1,
                   !.ctl = "rerun"]

\* StartInterview without responses.clear()
StartInterviewKeepsResponses(w, in) ==
    IF ~in.gen_ok
    THEN [w EXCEPT !.ctl = "raise", !.error = "question_chain"]
    ELSE [w EXCEPT !.ss.questions = ParseQuestions(in.generated),
                   !.ss.current_question = 0,
                   !.ss.interview_complete = FALSE,
                   !.started = 1,
                   !.ctl = "rerun"]

\* StartInterview without the reset of current_question
StartInterviewKeepsCursor(w, in) ==
    IF ~in.gen_ok
    THEN [w EXCEPT !.ctl = "raise", !.error = "question_chain"]
    ELSE [w EXCEPT !.ss.questions = ParseQuestions(in.generated),
                   !.ss.responses = <<>>,
                   !.ss.interview_complete = FALSE,
                   !.started = 1,
                   !.ctl = "rerun"]

\* lines 150-157: the body of the "Start Interview" branch
StartInterview(w, in) ==
    IF ~in.gen_ok
    THEN [w EXCEPT !.ctl = "raise", !.error = "question_chain"]
    ELSE [w EXCEPT !.ss.questions = ParseQuestions(in.generated),
                   !.ss.current_question = 0,
                   !.ss.responses = <<>>,
                   !.ss.interview_complete = FALSE,
                   !.started = 1,
                   !.ctl = "rerun"]

\* line 149
RoleGuard(ss) == Strip(ss.role) # <<>> /\ Strip(ss.description) # <<>>

\* lines 145-159
RoleBlock(w, in) ==
    LET w1 == [w EXCEPT !.ss.role = in.title, !.ss.description = in.description]
    IN  IF Clicked(w1, in, "Start Interview")
        THEN IF RoleGuard(w1.ss)
             THEN StartInterview(w1, in)
             ELSE [w1 EXCEPT !.error = "warning"]
        ELSE w1

\* RecordAnswer storing an empty transcript when the transcription raises
RecordAnswerStoresEmpty(w, in, idx, q_text) ==
    IF in.audio # NoAudio
    THEN LET safe_name  == Replace(w.ss.candidate_name, SP, "_")
             audio_path == AudioPath(safe_name, idx)
             files      == save_audio(w.audios, in.audio, audio_path)
         IN  IF ~in.whisper_ok
             THEN [w EXCEPT !.audios = files, !.ctl = "raise",
                            !.error = "transcribe_audio_file",
                            !.ss.responses = DictSet(@, q_text, audio_path, <<>>)]
             ELSE [w EXCEPT !.audios = files,
                            !.ss.responses =
                                DictSet(@, q_text, audio_path,
                                        transcribe_audio_file(files, audio_path))]
    ELSE w

\* lines 169-176
RecordAnswer(w, in, idx, q_text) ==
    IF in.audio # NoAudio
    THEN LET safe_name  == Replace(w.ss.candidate_name, SP, "_")
             audio_path == AudioPath(safe_name, idx)
             files      == save_audio(w.audios, in.audio, audio_path)
         IN  IF ~in.whisper_ok
             THEN [w EXCEPT !.audios = files, !.ctl = "raise",
                            !.error = "transcribe_audio_file"]
             ELSE [w EXCEPT !.audios = files,
                            !.ss.responses =
                                DictSet(@, q_text, audio_path,
                                        transcribe_audio_file(files, audio_path))]
    ELSE w

\* lines 178-188
Navigate(w, in) ==
    IF Clicked(w, in, "Previous Question")
    THEN [w EXCEPT !.ss.current_question = @ - 1, !.ctl = "rerun"]
    ELSE IF Clicked(w, in, "Next Question")
    THEN [w EXCEPT !.ss.current_question = @ + 1, !.ctl = "rerun"]
    ELSE IF Clicked(w, in, "Finish Interview")
    THEN [w EXCEPT !.ss.interview_complete = TRUE, !.ctl = "rerun"]
    ELSE w

\* lines 162-188
InterviewBlock(w, in) ==
    IF InterviewShown(w.ss)
    THEN LET idx    == w.ss.current_question
             q_text == w.ss.questions[idx + 1]
             w1     == RecordAnswer(w, in, idx, q_text)
         IN  IF w1.ctl # "continue" THEN w1 ELSE Navigate(w1, in)
    ELSE w

\* lines 191-198
EvaluationBlock(w, in) ==
    IF w.ss.interview_complete
    THEN IF in.evaluation = Raised
         THEN [w EXCEPT !.ctl = "raise", !.error = "evaluation_chain"]
         ELSE [w EXCEPT !.csv = save_results_csv(@, w.ss.candidate_name, w.ss.role,
                                                 w.ss.responses, in.evaluation),
                        !.saved = TRUE]
    ELSE w

\* lines 110-198
Main(w, in) ==
    LET w1 == NameBlock(w, in) IN
    IF w1.ctl # "continue" THEN w1 ELSE
    LET w2 == GreetingBlock(w1, in) IN
    IF w2.ctl # "continue" THEN w2 ELSE
    LET w3 == RoleBlock(w2, in) IN
    IF w3.ctl # "continue" THEN w3 ELSE
    LET w4 == InterviewBlock(w3, in) IN
    IF w4.ctl # "continue" THEN w4 ELSE
    EvaluationBlock(w4, in)

(***************************************************************************)
(* State machine: one action per trigger, each a whole run of main().      *)
(***************************************************************************)
Init ==
    /\ session_state = [questions |-> <<>>, current_question |-> 0,
                        responses |-> <<>>, interview_complete |-> FALSE,
                        greeting_done |-> FALSE, greeting_text |-> "",
                        candidate_name |-> <<>>, role |-> <<>>,
                        description |-> <<>>]
    /\ audios = <<>>
    /\ results_csv = [exists |-> FALSE, rows |-> <<>>]
    /\ rerun = FALSE
    /\ outcome = "ok"
    /\ session_saves = 0
    /\ persisted_questions = 0
    /\ starts = 0

\* the widget values of a run in which the user touched nothing
Untouched ==
    [click |-> NoClick, name |-> <<>>, title |-> session_state.role,
     description |-> session_state.description, audio |-> NoAudio,
     whisper_ok |-> TRUE, greeting |-> Raised, gen_ok |-> FALSE,
     generated |-> <<>>, evaluation |-> Raised]

\* the record a run of main() starts from
World ==
    [ss |-> session_state, audios |-> audios, csv |-> results_csv,
     ctl |-> "continue", error |-> "ok", saved |-> FALSE, started |-> 0]

\* run main() with the widget values and call outcomes in
Run(in) ==
    \E w \in {Main(World, in)} :
        LET finished == w.ss.interview_complete /\ ~session_state.interview_complete
        IN  /\ Len(w.csv.rows) <= MaxRows
            /\ starts + w.started <= MaxStarts
            /\ starts' = starts + w.started
            /\ session_state' = w.ss
            /\ audios' = w.audios
            /\ results_csv' = w.csv
            /\ rerun' = (w.ctl = "rerun")
            /\ outcome' = w.error
            /\ session_saves' = IF finished THEN 0
                                ELSE IF w.saved THEN session_saves + 1
                                ELSE session_saves
            /\ persisted_questions' =
                   IF w.saved /\ session_saves = 0
                   THEN persisted_questions + Len(w.ss.questions)
                   ELSE persisted_questions

\* the run st.rerun() asks for, or a rerun the user asks for: no widget changed
ReRun ==
    \E greeting \in GreetingOutputs \cup {Raised},
       evaluation \in EvalOutputs \cup {Raised} :
        Run([Untouched EXCEPT !.greeting = greeting,
                                       !.evaluation = evaluation])

\* "Submit Name" clicked with name in the text field
SubmitName ==
    /\ ~rerun
    /\ Shown(session_state, "Submit Name")
    /\ \E name \in NameInputs :
        Run([Untouched EXCEPT !.click = "Submit Name", !.name = name])

\* the text inputs of the expander exist once the greeting is shown (line 142)
RoleFieldsShown == session_state.candidate_name # <<>> /\ session_state.greeting_done

\* "Job Title" edited
EditTitle ==
    /\ ~rerun
    /\ RoleFieldsShown
    /\ \E title \in TitleInputs \ {session_state.role},
          evaluation \in EvalOutputs \cup {Raised} :
        Run([Untouched EXCEPT !.title = title,
                                           !.evaluation = evaluation])

\* "Job Description" edited
EditDescription ==
    /\ ~rerun
    /\ RoleFieldsShown
    /\ \E description \in DescriptionInputs \ {session_state.description},
          evaluation \in EvalOutputs \cup {Raised} :
        Run([Untouched EXCEPT !.description = description,
                                                 !.evaluation = evaluation])

\* "Start Interview" clicked
ClickStart ==
    /\ ~rerun
    /\ Shown(session_state, "Start Interview")
    /\ \E gen_ok \in BOOLEAN, generated \in GenOutputs,
          evaluation \in EvalOutputs \cup {Raised} :
        Run([Untouched EXCEPT !.click = "Start Interview",
                                                 !.gen_ok = gen_ok,
                                                 !.generated = generated,
                                                 !.evaluation = evaluation])

\* the audio recorder delivers a recording (line 168): audio_recorder returns
\* the bytes in the run that the finished recording triggers, None in the
\* runs of the other triggers
Record ==
    /\ ~rerun
    /\ RoleFieldsShown
    /\ InterviewShown(session_state)
    /\ \E audio \in Recordings, whisper_ok \in BOOLEAN :
        Run([Untouched EXCEPT !.audio = audio,
                                                !.whisper_ok = whisper_ok])

ClickPrevious ==
    /\ ~rerun
    /\ Shown(session_state, "Previous Question")
    /\ Run([Untouched EXCEPT !.click = "Previous Question"])

ClickNext ==
    /\ ~rerun
    /\ Shown(session_state, "Next Question")
    /\ Run([Untouched EXCEPT !.click = "Next Question"])

ClickFinish ==
    /\ ~rerun
    /\ Shown(session_state, "Finish Interview")
    /\ Run([Untouched EXCEPT !.click = "Finish Interview"])

Next ==
    \/ ReRun
    \/ SubmitName
    \/ EditTitle
    \/ EditDescription
    \/ ClickStart
    \/ Record
    \/ ClickPrevious
    \/ ClickNext
    \/ ClickFinish

Spec == Init /\ [][Next]_vars

(***************************************************************************)
(* Vocabulary of the properties.                                           *)
(***************************************************************************)
\* the phase main() acts on: the guards of lines 129, 137, 162 and 191
Phase(ss) ==
    IF ss.candidate_name = <<>> THEN "AwaitingName"
    ELSE IF ~ss.greeting_done THEN "AwaitingGreeting"
    ELSE IF ss.interview_complete THEN "Completed"
    ELSE IF ss.questions # <<>> THEN "Interviewing"
    ELSE "AwaitingRole"

SafeName(ss) == Replace(ss.candidate_name, SP, "_")

\* the last index is the current one and the question there has an answer
FinishReady(ss) ==
    /\ Phase(ss) = "Interviewing"
    /\ ss.current_question = Len(ss.questions) - 1
    /\ ss.questions[ss.current_question + 1] \in Keys(ss.responses)

\* an answer was recorded at position i (0-based) of the question list: the
\* answer stored for that question carries the audio file of that position
RecordedAt(ss, i) ==
    \E k \in DOMAIN ss.responses :
        /\ ss.responses[k].q = ss.questions[i + 1]
        /\ ss.responses[k].audio = AudioPath(SafeName(ss), i)

\* the answer the session holds for position i: none, or one
AnswerAt(ss, i) ==
    IF ss.questions[i + 1] \in Keys(ss.responses)
    THEN {Lookup(ss.responses, ss.questions[i + 1])}
    ELSE {}

HeaderCount ==
    Cardinality({i \in DOMAIN results_csv.rows : results_csv.rows[i].kind = "header"})

(***************************************************************************)
(* C1.  Persistence happens exactly once per completed session: however    *)
(* often main() is re-entered after "Finish Interview" set                 *)
(* interview_complete, save_results_csv is called once for the session;    *)
(* once a run of the completed session has ended without an exception the  *)
(* call has been made, and it is never made a second time.                 *)
(***************************************************************************)
C1_PersistedOncePerSession ==
    /\ session_saves <= 1
    /\ (session_state.interview_complete /\ ~rerun /\ outcome \in {"ok", "warning"})
           => session_saves = 1

C3_AnswersCoverAllIndices ==
    session_state.interview_complete =>
        \A i \in 0..(Len(session_state.questions) - 1) : RecordedAt(session_state, i)

(***************************************************************************)
(* C4.  The results file holds one header row, written first and never     *)
(* again, and one row per question of every persisted session: 1 + the sum *)
(* of len(questions) over the sessions persisted.                          *)
(***************************************************************************)
C4_SinkRowCount ==
    IF results_csv.exists
    THEN /\ Len(results_csv.rows) = 1 + persisted_questions
         /\ results_csv.rows[1].kind = "header"
         /\ HeaderCount = 1
    ELSE results_csv.rows = <<>> /\ persisted_questions = 0

(***************************************************************************)
(* C5.  A run in which transcribe_audio_file raises leaves the session as  *)
(* it was: responses, cursor and questions are unchanged, the phase is     *)
(* still Interviewing, and no empty transcript has been stored.            *)
(***************************************************************************)
C5_TranscriptionFailureKeepsSession ==
    [][outcome' = "transcribe_audio_file" =>
          /\ session_state'.responses = session_state.responses
          /\ session_state'.current_question = session_state.current_question
          /\ session_state'.questions = session_state.questions
          /\ Phase(session_state) = "Interviewing"
          /\ Phase(session_state') = "Interviewing"
          /\ \A k \in DOMAIN session_state'.responses :
                 session_state'.responses[k].text = <<>>
                     => session_state'.responses[k] \in
                            {session_state.responses[j] : j \in DOMAIN session_state.responses}
      ]_vars

\* the transcription of the recording made for the current, unanswered
\* question raised: its audio file is written, no answer is stored
C5_Witness ==
    /\ outcome = "transcribe_audio_file"
    /\ AnswerAt(session_state, session_state.current_question) = {}
    /\ AudioPath(SafeName(session_state), session_state.current_question)
           \in DOMAIN audios

(***************************************************************************)
(* C6.  Recording again for a question that already has an answer leaves   *)
(* exactly one answer for the current index, equal to the latest           *)
(* recording's payload (audio path and transcript), and leaves the answer  *)
(* of every other index, the cursor and the question list unchanged.       *)
(***************************************************************************)
C6_RecordAgainOverwritesOnlyOwnIndex ==
    [][LET idx  == session_state.current_question
           q    == session_state.questions[idx + 1]
           path == AudioPath(SafeName(session_state), idx)
       IN  ( /\ Phase(session_state) = "Interviewing"
             /\ q \in Keys(session_state.responses)
             /\ session_state'.responses # session_state.responses
             /\ session_state'.responses # <<>> )
           => /\ Cardinality({k \in DOMAIN session_state'.responses :
                                 session_state'.responses[k].q = q}) = 1
              /\ AnswerAt(session_state', idx) =
                     {[q |-> q, audio |-> path,
                       text |-> transcribe_audio_file(audios', path)]}
              /\ \A j \in 0..(Len(session_state.questions) - 1) :
                     j # idx => AnswerAt(session_state', j) = AnswerAt(session_state, j)
              /\ session_state'.current_question = idx
              /\ session_state'.questions = session_state.questions]_vars

(***************************************************************************)
(* C7.  Whenever the question list is non-empty the cursor is an index of  *)
(* it: 0 <= current_question < len(questions), across navigation,          *)
(* recording, finish and restarts that replace the list by one of another  *)
(* length.                                                                 *)
(***************************************************************************)
C7_CursorInBounds ==
    session_state.questions # <<>> =>
        /\ 0 <= session_state.current_question
        /\ session_state.current_question < Len(session_state.questions)

\* a restart replaced a list whose second question had been reached (its
\* audio file exists) by a list of one question
C7_Witness ==
    /\ starts = 2
    /\ Len(session_state.questions) = 1
    /\ AudioPath(SafeName(session_state), 1) \in DOMAIN audios

(***************************************************************************)
(* C8 as claimed.  Once interview_complete is TRUE no step changes         *)
(* questions, answers or cursor, and the flag stays TRUE.                  *)
(***************************************************************************)
C8_CompletionIsTerminal ==
    [][session_state.interview_complete =>
          /\ session_state'.questions = session_state.questions
          /\ session_state'.responses = session_state.responses
          /\ session_state'.current_question = session_state.current_question
          /\ session_state'.interview_complete]_vars

(***************************************************************************)
(* C8 as amended.  Once interview_complete is TRUE, a step that is not a   *)
(* "Start Interview" storing a new question list changes none of           *)
(* questions, answers, cursor and the flag; "Start Interview" is offered   *)
(* in the completed phase too, and a step that stores its question list    *)
(* empties the answers, resets the cursor and clears the flag.             *)
(***************************************************************************)
C8_CompletionFrozenUntilRestart ==
    [][session_state.interview_complete =>
          /\ Shown(session_state, "Start Interview")
          /\ starts' = starts =>
                 /\ session_state'.questions = session_state.questions
                 /\ session_state'.responses = session_state.responses
                 /\ session_state'.current_question = session_state.current_question
                 /\ session_state'.interview_complete
          /\ starts' # starts =>
                 /\ session_state'.responses = <<>>
                 /\ session_state'.current_question = 0
                 /\ ~session_state'.interview_complete]_vars

\* main() was re-entered after the completed session had been persisted, and
\* the session is still complete, its last question answered
C8_Witness ==
    /\ session_state.interview_complete
    /\ session_saves >= 2
    /\ AnswerAt(session_state, session_state.current_question) # {}

(***************************************************************************)
(* C9.  While questions exist, the stored role and description change only *)
(* in a step in which "Start Interview" replaces the question list.        *)
(***************************************************************************)
C9_RoleFixedWhileQuestionsExist ==
    [][(session_state.questions # <<>> /\ starts' = starts) =>
          /\ session_state'.role = session_state.role
          /\ session_state'.description = session_state.description]_vars

(***************************************************************************)
(* C10.  The session enters Interviewing only with title and description   *)
(* non-empty after trimming and a non-empty question list; a "Start        *)
(* Interview" whose guard is violated (blank title or description: the     *)
(* warning; or an empty generated list) changes no session field.          *)
(***************************************************************************)
C10_StartGuard ==
    [][/\ (Phase(session_state) # "Interviewing" /\ Phase(session_state') = "Interviewing")
              => /\ RoleGuard(session_state')
                 /\ session_state'.questions # <<>>
       /\ outcome' = "warning" => session_state' = session_state
       /\ (starts' # starts /\ session_state'.questions = <<>>)
              => session_state' = session_state]_vars

C12_ServiceFailureKeepsSession ==
    [][/\ outcome' = "question_chain" =>
              /\ session_state'.questions = session_state.questions
              /\ session_state'.responses = session_state.responses
              /\ session_state'.current_question = session_state.current_question
              /\ session_state'.interview_complete = session_state.interview_complete
              /\ results_csv' = results_csv
       /\ outcome' = "evaluation_chain" =>
              /\ results_csv' = results_csv
              /\ Phase(session_state) = "Completed"
              /\ Phase(session_state') = "Completed"
              /\ Main(World', Untouched').error = "evaluation_chain"
              /\ \A e \in EvalOutputs :
                     LET retry == Main(World', [Untouched' EXCEPT !.evaluation = e])
                     IN  retry.saved /\ retry.csv # results_csv'
       /\ outcome' = "greeting_chain" =>
              /\ session_state' = session_state
              /\ ~session_state'.greeting_done
              /\ results_csv' = results_csv
              /\ Main(World', Untouched').error = "greeting_chain"
              /\ \A g \in GreetingOutputs :
                     Main(World', [Untouched' EXCEPT !.greeting = g]).ss.greeting_done
      ]_vars

\* question_chain raised in a session that holds answers
C12_Witness ==
    /\ outcome = "question_chain"
    /\ session_state.responses # <<>>
    /\ session_state.questions # <<>>

(***************************************************************************)
(* C13.  Re-entering main() with no widget changed yields the same phase   *)
(* and changes no session field and no content of the results file.  The   *)
(* states in which the flow itself still owes a step are left out: the     *)
(* greeting not yet fetched, and a completed session not yet saved.        *)
(***************************************************************************)
C13_ReentryChangesNothing ==
    LET ss == session_state
    IN  ( /\ Phase(ss) # "AwaitingGreeting"
          /\ Phase(ss) = "Completed" => session_saves >= 1 )
        => \A g \in GreetingOutputs \cup {Raised}, e \in EvalOutputs \cup {Raised} :
               LET w == Main(World, [Untouched EXCEPT !.greeting = g,
                                                      !.evaluation = e])
               IN  /\ Phase(w.ss) = Phase(ss)
                   /\ w.ss = ss
                   /\ w.csv = results_csv

(***************************************************************************)
(* C14.  A "Start Interview" whose question_chain call returns, the first  *)
(* or a later one, stores the lines parsed from the returned text as       *)
(* questions, sets current_question to 0, empties responses and clears     *)
(* interview_complete, and leaves candidate_name and greeting_text as they *)
(* were.  candidate_name is set from a name that is non-empty after        *)
(* trimming, and no step changes it once it is set.                        *)
(***************************************************************************)
C14_RestartEffectAndFrame ==
    [][LET ss == session_state
       IN  /\ starts' # starts =>
                 /\ \A g \in GenOutputs :
                        Main(World, [Untouched EXCEPT !.click = "Start Interview",
                                                      !.gen_ok = TRUE,
                                                      !.generated = g]).ss.questions
                            = ParseQuestions(g)
                 /\ session_state'.questions \in {ParseQuestions(g) : g \in GenOutputs}
                 /\ session_state'.current_question = 0
                 /\ session_state'.responses = <<>>
                 /\ ~session_state'.interview_complete
                 /\ session_state'.candidate_name = ss.candidate_name
                 /\ session_state'.greeting_text = ss.greeting_text
           /\ ss.candidate_name # <<>> =>
                 session_state'.candidate_name = ss.candidate_name
           /\ session_state'.candidate_name # ss.candidate_name =>
                 /\ session_state'.candidate_name # <<>>
                 /\ \E name \in NameInputs :
                        session_state'.candidate_name = Strip(name)]_vars

\* "Start Interview" stored a second question list after the first session
\* had been completed and saved
C14_Witness ==
    /\ starts = 2 /\ rerun
    /\ results_csv.exists
    /\ session_state.candidate_name # <<>>
    /\ session_state.responses = <<>>
    /\ ~session_state.interview_complete

\* the characters a list number starts with
Digits == {"0", "1", "2", "3", "4", "5", "6", "7", "8", "9"}

(***************************************************************************)
(* C15.  The stored questions are plain lines: none is empty, none keeps   *)
(* leading or trailing white space, and none begins with its list number   *)
(* (a digit).                                                              *)
(***************************************************************************)
C15_QuestionsArePlainLines ==
    \A i \in DOMAIN session_state.questions :
        LET q == session_state.questions[i]
        IN  /\ q # <<>>
            /\ Strip(q) = q
            /\ Head(q) \notin Digits

(***************************************************************************)
(* C16.  The stored flags agree with the stored data: interview_complete   *)
(* implies candidate_name non-empty, greeting_done, questions non-empty,   *)
(* current_question = len(questions) - 1 and an answer stored for the last *)
(* question; responses non-empty implies questions non-empty and every key *)
(* of responses is the text of a question of the current list.             *)
(***************************************************************************)
C16_FlagsAgreeWithData ==
    LET ss == session_state
    IN  /\ ss.interview_complete =>
              /\ ss.candidate_name # <<>>
              /\ ss.greeting_done
              /\ ss.questions # <<>>
              /\ ss.current_question = Len(ss.questions) - 1
              /\ ss.questions[Len(ss.questions)] \in Keys(ss.responses)
        /\ ss.responses # <<>> =>
              /\ ss.questions # <<>>
              /\ \A k \in Keys(ss.responses) :
                     \E i \in DOMAIN ss.questions : ss.questions[i] = k

\* the second interview of the session is complete and saved
C16_Witness ==
    /\ starts = 2
    /\ session_state.interview_complete
    /\ session_saves >= 1
    /\ session_state.responses # <<>>

(***************************************************************************)
(* C17.  Forward navigation never skips an unanswered index: in the        *)
(* Interviewing phase every position below current_question has had an     *)
(* answer recorded at it, so the question there has a stored answer and    *)
(* the audio file of that position (written by every recording made at     *)
(* it, and never deleted) exists.                                          *)
(***************************************************************************)
C17_NoUnansweredIndexBelowCursor ==
    LET ss == session_state
    IN  Phase(ss) = "Interviewing" =>
            \A i \in 0..(ss.current_question - 1) :
                /\ AnswerAt(ss, i) # {}
                /\ AudioPath(SafeName(ss), i) \in DOMAIN audios

(***************************************************************************)
(* C18.  The transcript built for the evaluation follows the question      *)
(* list: for a completed interview qa_pairs has one entry per question,    *)
(* and the entry labelled Q(i+1) holds the question at position i and the  *)
(* transcript stored for it.                                               *)
(***************************************************************************)
C18_TranscriptFollowsQuestionOrder ==
    LET ss    == session_state
        pairs == QaPairs(ss.responses)
    IN  ss.interview_complete =>
            /\ Len(pairs) = Len(ss.questions)
            /\ \A i \in 0..(Len(ss.questions) - 1) :
                   /\ pairs[i + 1].label = i + 1
                   /\ pairs[i + 1].q = ss.questions[i + 1]
                   /\ AnswerAt(ss, i) # {}
                   /\ \A r \in AnswerAt(ss, i) : pairs[i + 1].a = r.text

(***************************************************************************)
(* C19.  Audio and transcript of a stored answer agree: for every item of  *)
(* responses the file at its audio path exists and holds the recording     *)
(* whose transcription is the stored text, also after a recording made     *)
(* again for an answered question whose transcription raised.              *)
(***************************************************************************)
C19_AudioMatchesTranscript ==
    \A k \in DOMAIN session_state.responses :
        LET r == session_state.responses[k]
        IN  /\ r.audio \in DOMAIN audios
            /\ transcribe_audio_file(audios, r.audio) = r.text

====
